---- MODULE Spec2Model ----
(***************************************************************************)
(* State-machine model of software-team-persistent.py: the project state   *)
(* store (ProjectStateManager), the per-role memory store (AgentMemory),   *)
(* the role agent (SoftwareTeamAgent.process_message) and the orchestrator *)
(* (SoftwareTeam).  Python values that the code serialises carry their     *)
(* run-time representation: a status is either a ProjectStatus member      *)
(* (repr "enum") or the plain string tag read back from a JSON document    *)
(* (repr "str"); json.dump accepts the second and raises TypeError on the  *)
(* first, after the text before it has already been written to the file.   *)
(***************************************************************************)
EXTENDS Integers, Sequences, FiniteSets, TLC

VARIABLES
    files,      \* project_states/<id>.json : one document per project id
    memfiles,   \* agent_memories/<id>/<role>.json
    team,       \* the SoftwareTeam object the client holds (or none)
    last        \* the last call the client made and how it ended

vars == <<files, memfiles, team, last>>

\* ------------------------------------------------------------------ bounds
MaxMilestones == 2      \* process_milestone is not called on a longer list
MaxLog == 2             \* a role's decisions / learnings log is not grown further

\* ------------------------------------------------------------- data model
Roles == <<"CEO", "CTO", "Tester", "Coder">>
RoleSet == {Roles[i] : i \in 1..Len(Roles)}

ProjectIds == {"p1", "p2"}           \* documents the store is asked about
TeamIds == {"p1"}                   \* line 345: the project the driver works on
Names == {"X"}
Requirements == {"reqs"}
Descriptions == {"Add login"}

\* a ProjectStatus member, as the running program holds it
ProjectStatus(tag) == [repr |-> "enum", tag |-> tag]
\* the plain string a status is after json.load (from_dict does not convert it)
StrStatus(tag) == [repr |-> "str", tag |-> tag]

NOT_STARTED == ProjectStatus("not_started")
IN_PROGRESS == ProjectStatus("in_progress")
COMPLETED == ProjectStatus("completed")
ON_HOLD == ProjectStatus("on_hold")

None == "None"                      \* Optional[str] fields
NoState == [kind |-> "None"]        \* Optional[ProjectState]
now == "ts"                         \* datetime.datetime.now().isoformat()

milestone_id(n) == "milestone_" \o ToString(n)

\* Milestone whose completed_at defaults to the creation time
Milestone_StampedAtCreation(id, description, status, assigned_to, created_at) ==
    [id |-> id, description |-> description, status |-> status,
     assigned_to |-> assigned_to, created_at |-> created_at,
     completed_at |-> created_at, feedback |-> <<>>]

Milestone(id, description, status, assigned_to, created_at) ==
    [id |-> id, description |-> description, status |-> status,
     assigned_to |-> assigned_to, created_at |-> created_at,
     completed_at |-> None, feedback |-> <<>>]

ProjectState(project_id, name, requirements, status, created_at, updated_at, milestones, learning_points, team_feedback, current_milestone_id) ==
    [project_id |-> project_id, name |-> name, requirements |-> requirements,
     status |-> status, created_at |-> created_at, updated_at |-> updated_at,
     milestones |-> milestones, learning_points |-> learning_points,
     team_feedback |-> team_feedback,
     current_milestone_id |-> current_milestone_id]

\* asdict: the same fields; a ProjectStatus member stays a member (deepcopy)
to_dict(state) == state

\* Milestone(**m): the fields as the document holds them; a status read from a
\* document is the plain string, no ProjectStatus member is looked up
MilestoneFromDict(m) ==
    [id |-> m.id, description |-> m.description, status |-> m.status,
     assigned_to |-> m.assigned_to, created_at |-> m.created_at,
     completed_at |-> m.completed_at, feedback |-> m.feedback]

from_dict(data) ==
    [data EXCEPT !.milestones =
        [i \in 1..Len(data.milestones) |-> MilestoneFromDict(data.milestones[i])]]

\* ---------------------------------------------------------- serialisation
\* what json's encoder accepts: str, None, list, dict; not an Enum member
StatusEncodable(status) == status.repr = "str"

MilestoneEncodable(m) == StatusEncodable(m.status)

\* position of the first milestone the encoder cannot write, 0 if none
RECURSIVE FirstBadMilestone(_, _)
FirstBadMilestone(ms, i) ==
    IF i > Len(ms) THEN 0
    ELSE IF ~MilestoneEncodable(ms[i]) THEN i
    ELSE FirstBadMilestone(ms, i + 1)

Encodable(d) ==
    /\ StatusEncodable(d.status)
    /\ FirstBadMilestone(d.milestones, 1) = 0

AbsentDoc == [kind |-> "absent"]

\* the text json.dump has written when it returns
CompleteDoc(d) == [kind |-> "complete", data |-> d]

\* the text json.dump has written when it raises TypeError: the keys before
\* the value it could not encode (dict order: project_id, name, requirements,
\* status, created_at, updated_at, milestones, ...)
TruncatedDoc(d) ==
    IF ~StatusEncodable(d.status)
    THEN [kind |-> "truncated",
          written |-> <<d.project_id, d.name, d.requirements>>,
          milestones |-> <<>>,
          cut |-> <<"status">>]
    ELSE LET i == FirstBadMilestone(d.milestones, 1) IN
         [kind |-> "truncated",
          written |-> <<d.project_id, d.name, d.requirements, d.status.tag,
                        d.created_at, d.updated_at>>,
          milestones |-> SubSeq(d.milestones, 1, i - 1),
          cut |-> <<"milestones", ToString(i), d.milestones[i].id,
                    d.milestones[i].description, "status">>]

\* open(file_path, 'w') followed by json.dump(d, f, indent=2)
json_dump(d) ==
    IF Encodable(d)
    THEN [doc |-> CompleteDoc(d), outcome |-> "returned", error |-> None]
    ELSE [doc |-> TruncatedDoc(d), outcome |-> "raised", error |-> "TypeError"]

\* json.load of a document that exists
json_load(doc) ==
    IF doc.kind = "complete"
    THEN [outcome |-> "returned", error |-> None, data |-> doc.data]
    ELSE [outcome |-> "raised", error |-> "JSONDecodeError", data |-> NoState]

\* ------------------------------------------------------------ state store
save_state(fs, state) ==
    LET r == json_dump(to_dict(state)) IN
    [files |-> [fs EXCEPT ![state.project_id] = r.doc],
     outcome |-> r.outcome, error |-> r.error]

\* load_state without the file_path.exists() test: open() raises
load_state_NoExistsTest(fs, project_id) ==
    IF fs[project_id].kind = "complete"
    THEN [files |-> fs, outcome |-> "returned", error |-> None,
          value |-> from_dict(fs[project_id].data)]
    ELSE [files |-> fs, outcome |-> "raised",
          error |-> IF fs[project_id].kind = "absent"
                    THEN "FileNotFoundError" ELSE "JSONDecodeError",
          value |-> NoState]

load_state(fs, project_id) ==
    IF fs[project_id].kind # "absent"
    THEN LET r == json_load(fs[project_id]) IN
         IF r.outcome = "returned"
         THEN [files |-> fs, outcome |-> "returned", error |-> None,
               value |-> from_dict(r.data)]
         ELSE [files |-> fs, outcome |-> "raised", error |-> r.error,
               value |-> NoState]
    ELSE [files |-> fs, outcome |-> "returned", error |-> None,
          value |-> NoState]

list_projects(fs) == {p \in ProjectIds : fs[p].kind # "absent"}

\* ----------------------------------------------------------- memory store
SummaryLen == 5

DefaultMemory ==
    [decisions |-> <<>>, learnings |-> <<>>, context |-> <<>>, next_steps |-> <<>>]

\* the slice [:n] instead of [-n:]
LastN_FirstN(seq, n) ==
    IF Len(seq) <= n THEN seq ELSE SubSeq(seq, 1, n)

LastN(seq, n) ==
    IF Len(seq) <= n THEN seq ELSE SubSeq(seq, Len(seq) - n + 1, Len(seq))

get_memory_summary(memory) ==
    [recent_decisions |-> LastN(memory.decisions, SummaryLen),
     key_learnings |-> LastN(memory.learnings, SummaryLen),
     current_context |-> memory.context,
     pending_steps |-> memory.next_steps]

load_memory(mdoc) ==
    IF mdoc.kind # "absent" THEN mdoc.data ELSE DefaultMemory

\* a context the json encoder accepts: no ProjectStatus member inside it
ContextEncodable(context) ==
    /\ context.project_state = NoState \/ Encodable(context.project_state)
    /\ context.current_milestone = NoState
          \/ MilestoneEncodable(context.current_milestone)

MemoryEncodable(memory) ==
    \A i \in 1..Len(memory.decisions) :
        ContextEncodable(memory.decisions[i].context)

\* open(memory_file, 'w') followed by json.dump(self.memory, f, indent=2)
save_memory(memory) ==
    IF MemoryEncodable(memory)
    THEN [doc |-> [kind |-> "complete", data |-> memory],
          outcome |-> "returned", error |-> None]
    ELSE [doc |-> [kind |-> "truncated", data |-> DefaultMemory],
          outcome |-> "raised", error |-> "TypeError"]

\* add_decision inserting the entry at the head of the log
add_decision_Prepend(memory, decision, context) ==
    LET m == [memory EXCEPT !.decisions =
                 <<[timestamp |-> now, decision |-> decision,
                    context |-> context]>> \o @]
        w == save_memory(m)
    IN  [memory |-> m, doc |-> w.doc, outcome |-> w.outcome, error |-> w.error]

add_decision(memory, decision, context) ==
    LET m == [memory EXCEPT !.decisions =
                 Append(@, [timestamp |-> now, decision |-> decision,
                            context |-> context])]
        w == save_memory(m)
    IN  [memory |-> m, doc |-> w.doc, outcome |-> w.outcome, error |-> w.error]

add_learning(memory, learning) ==
    LET m == [memory EXCEPT !.learnings =
                 Append(@, [timestamp |-> now, learning |-> learning])]
        w == save_memory(m)
    IN  [memory |-> m, doc |-> w.doc, outcome |-> w.outcome, error |-> w.error]

\* self.memory["context"].update(context): last write per key wins
update_context(memory, context) ==
    LET m == [memory EXCEPT !.context =
                 [k \in (DOMAIN @) \cup (DOMAIN context) |->
                     IF k \in DOMAIN context THEN context[k] ELSE @[k]]]
        w == save_memory(m)
    IN  [memory |-> m, doc |-> w.doc, outcome |-> w.outcome, error |-> w.error]

\* self.memory["next_steps"] = steps
set_next_steps(memory, steps) ==
    LET m == [memory EXCEPT !.next_steps = steps]
        w == save_memory(m)
    IN  [memory |-> m, doc |-> w.doc, outcome |-> w.outcome, error |-> w.error]

\* ------------------------------------------------------------- role agent
\* the generation service's answers
Fail == "fail"

\* process_message whose handler re-raises without recording the learning
process_message_NoLearning(memory, role, context, save_decision, reply) ==
    LET full_context == [project_state |-> context.project_state,
                         current_milestone |-> context.current_milestone,
                         previous_results |-> context.previous_results,
                         memory_summary |-> get_memory_summary(memory)]
        formatted == ContextEncodable(full_context)
        failed == ~formatted \/ reply = Fail
        dec == add_decision(memory, reply, full_context)
    IN  IF ~failed
        THEN [memory |-> dec.memory, doc |-> dec.doc, written |-> save_decision,
              outcome |-> "returned", error |-> None,
              response |-> reply, called |-> formatted]
        ELSE [memory |-> memory, doc |-> AbsentDoc, written |-> FALSE,
              outcome |-> "raised",
              error |-> "RuntimeError: Error in " \o role \o " agent",
              response |-> None, called |-> formatted]

\* process_message(message, context, save_decision) of the agent holding
\* `memory`; `reply` is what llm.generate does if it is reached
process_message(memory, role, context, save_decision, reply) ==
    LET full_context == [project_state |-> context.project_state,
                         current_milestone |-> context.current_milestone,
                         previous_results |-> context.previous_results,
                         memory_summary |-> get_memory_summary(memory)]
        formatted == ContextEncodable(full_context)     \* _format_input
        called == formatted
        failed == ~formatted \/ reply = Fail
        errtext == IF ~formatted
                   THEN "Object of type ProjectStatus is not JSON serializable"
                   ELSE "generation service failure"
        dec == IF save_decision
               THEN add_decision(memory, reply, full_context)
               ELSE [memory |-> memory, doc |-> AbsentDoc,
                     outcome |-> "returned", error |-> None]
        from == IF failed THEN memory ELSE dec.memory
        lrn == add_learning(from, "Error encountered: " \o errtext)
    IN  IF ~failed /\ dec.outcome = "returned"
        THEN [memory |-> dec.memory, doc |-> dec.doc, written |-> save_decision,
              outcome |-> "returned", error |-> None,
              response |-> reply, called |-> called]
        ELSE [memory |-> lrn.memory, doc |-> lrn.doc, written |-> TRUE,
              outcome |-> "raised",
              error |-> IF lrn.outcome = "raised" THEN lrn.error
                        ELSE "RuntimeError: Error in " \o role \o " agent",
              response |-> None, called |-> called]

\* ------------------------------------------------------------ orchestrator
NoTeam ==
    [alive |-> FALSE, project_id |-> None, state |-> NoState,
     agents |-> [r \in RoleSet |-> DefaultMemory]]

NoCall ==
    [op |-> "none", project_id |-> None, outcome |-> "returned", error |-> None,
     hadState |-> FALSE, failAt |-> 0, invoked |-> <<>>, results |-> <<>>,
     value |-> NoState]

Call(op, project_id, outcome, error) ==
    [NoCall EXCEPT !.op = op, !.project_id = project_id,
                   !.outcome = outcome, !.error = error]

\* what the generation service does on the i-th request of a call
Reply(i, failAt) == IF i = failAt THEN Fail ELSE "ok"

\* documents found in project_states/ when the program starts: the persisted
\* layout, every status a string tag
Feedback(role, text) == [role |-> role, feedback |-> text, timestamp |-> now]

StoredMilestone(n, tag, upto) ==
    [id |-> milestone_id(n), description |-> "Add login",
     status |-> StrStatus(tag), assigned_to |-> "CTO", created_at |-> now,
     completed_at |-> IF tag = "completed" THEN now ELSE None,
     feedback |-> [i \in 1..upto |-> Feedback(Roles[i], "ok")]]

StoredState(p, milestones) ==
    ProjectState(p, "X", "reqs", StrStatus("not_started"), now, now, milestones,
                 <<>>, [r \in RoleSet |-> <<>>],
                 IF milestones = <<>> THEN None
                 ELSE milestones[Len(milestones)].id)

StoredDocs(p) ==
    IF p \in TeamIds
    THEN {AbsentDoc,
          CompleteDoc(StoredState(p, <<>>)),
          CompleteDoc(StoredState(p, <<StoredMilestone(1, "completed", 4)>>)),
          CompleteDoc(StoredState(p, <<StoredMilestone(1, "on_hold", 2)>>))}
    ELSE {AbsentDoc, CompleteDoc(StoredState(p, <<>>))}

Init ==
    /\ files \in [ProjectIds -> UNION {StoredDocs(p) : p \in ProjectIds}]
    /\ \A p \in ProjectIds : files[p] \in StoredDocs(p)
    /\ memfiles = [p \in ProjectIds |-> [r \in RoleSet |-> AbsentDoc]]
    /\ team = NoTeam
    /\ last = NoCall

\* SoftwareTeam(project_id): the agents load their memories, the state is loaded
NewTeam(p) ==
    LET r == load_state(files, p) IN
    /\ files' = r.files
    /\ IF r.outcome = "returned"
       THEN team' = [alive |-> TRUE, project_id |-> p, state |-> r.value,
                     agents |-> [a \in RoleSet |-> load_memory(memfiles[p][a])]]
       ELSE team' = team
    /\ last' = Call("SoftwareTeam", p, r.outcome, r.error)
    /\ UNCHANGED memfiles

\* start_new_project(name, requirements)
StartNewProject(name, requirements) ==
    /\ team.alive
    /\ LET timestamp == now
           state == ProjectState(team.project_id, name, requirements,
                                 NOT_STARTED, timestamp, timestamp, <<>>, <<>>,
                                 [agent \in RoleSet |-> <<>>], None)
           w == save_state(files, state)
       IN  /\ team' = [team EXCEPT !.state = state]
           /\ files' = w.files
           /\ last' = [Call("start_new_project", team.project_id,
                            w.outcome, w.error)
                         EXCEPT !.hadState = team.state # NoState]
    /\ UNCHANGED memfiles

\* state_manager.load_state(project_id), called by the client
LoadState(p) ==
    LET r == load_state(files, p) IN
    /\ files' = r.files
    /\ last' = [Call("load_state", p, r.outcome, r.error)
                  EXCEPT !.value = r.value,
                         !.hadState = files[p].kind # "absent"]
    /\ UNCHANGED <<memfiles, team>>

\* the agents' logs have room for one more call
LogsHaveRoom ==
    \A r \in RoleSet : /\ Len(team.agents[r].decisions) < MaxLog
                       /\ Len(team.agents[r].learnings) < MaxLog

\* a call in progress: what it has changed so far and whether it still runs
Running(state, fs, agents, mem) ==
    [state |-> state, files |-> fs, agents |-> agents, mem |-> mem,
     results |-> <<>>, invoked |-> <<>>, outcome |-> "returned",
     error |-> None]

\* what a process_message call leaves in the agent's memory and its file
AfterMessage(run, role, r) ==
    [run EXCEPT !.agents[role] = r.memory,
                !.mem[role] = IF r.written THEN r.doc ELSE @,
                !.invoked = IF r.called THEN Append(@, role) ELSE @,
                !.outcome = r.outcome,
                !.error = r.error]

\* lines 280-285: the i-th iteration of resume_project's loop; an exception
\* of an earlier iteration has left the loop
ResumeAgent(i, run, failAt) ==
    IF run.outcome = "raised" THEN run
    ELSE AfterMessage(run, Roles[i],
             process_message(run.agents[Roles[i]], Roles[i],
                             [project_state |-> to_dict(run.state),
                              current_milestone |-> NoState,
                              previous_results |-> <<>>],
                             TRUE, Reply(i, failAt)))

\* resume_project()
ResumeProject(failAt) ==
    /\ team.alive
    /\ LogsHaveRoom
    /\ IF team.state = NoState
       THEN /\ last' = Call("resume_project", team.project_id, "raised",
                            "ValueError")
            /\ UNCHANGED <<team, memfiles>>
       ELSE \E r0 \in {Running(team.state, files, team.agents,
                               memfiles[team.project_id])} :
            \E r1 \in {ResumeAgent(1, r0, failAt)} :
            \E r2 \in {ResumeAgent(2, r1, failAt)} :
            \E r3 \in {ResumeAgent(3, r2, failAt)} :
            \E run \in {ResumeAgent(4, r3, failAt)} :
                /\ team' = [team EXCEPT !.agents = run.agents]
                /\ memfiles' = [memfiles EXCEPT ![team.project_id] = run.mem]
                /\ last' = [Call("resume_project", team.project_id,
                                 run.outcome, run.error)
                              EXCEPT !.hadState = TRUE, !.failAt = failAt,
                                     !.invoked = run.invoked]
    /\ UNCHANGED files

\* ------------------------------------------------------- process_milestone
\* NewMilestone numbering from the current count, without the + 1
NewMilestone_CountAsId(state, description) ==
    Milestone(milestone_id(Len(state.milestones)), description,
              IN_PROGRESS, "CTO", now)

\* lines 293-300: the new milestone
NewMilestone(state, description) ==
    Milestone(milestone_id(Len(state.milestones) + 1), description,
              IN_PROGRESS, "CTO", now)

\* AppendMilestone that also moves the project to IN_PROGRESS
AppendMilestone_AdvancesStatus(state, milestone) ==
    [state EXCEPT !.milestones = Append(@, milestone),
                  !.current_milestone_id = milestone.id,
                  !.status = IN_PROGRESS]

\* lines 302-303
AppendMilestone(state, milestone) ==
    [state EXCEPT !.milestones = Append(@, milestone),
                  !.current_milestone_id = milestone.id]

\* `milestone` is the object appended last to state.milestones
CurrentMilestone(state) == state.milestones[Len(state.milestones)]

AppendFeedback(state, role, result) ==
    [state EXCEPT !.milestones[Len(state.milestones)].feedback =
                      Append(@, Feedback(role, result))]

MarkCompleted(state) ==
    [state EXCEPT !.milestones[Len(state.milestones)].status = COMPLETED,
                  !.milestones[Len(state.milestones)].completed_at = now]

MarkOnHold(state) ==
    [state EXCEPT !.milestones[Len(state.milestones)].status = ON_HOLD]

\* lines 292-304: the milestone is appended and the state saved, outside the
\* try block
CreateMilestone(state, fs, agents, mem, description) ==
    LET s1 == AppendMilestone(state, NewMilestone(state, description))
        w1 == save_state(fs, s1)
    IN  [Running(s1, w1.files, agents, mem)
            EXCEPT !.outcome = w1.outcome, !.error = w1.error]

\* lines 321-328: the result joins the results and the milestone's feedback;
\* no save_state follows inside the loop
RecordResult(run, role, r) ==
    IF r.outcome = "raised" THEN run
    ELSE [run EXCEPT !.results = Append(@, <<role, r.response>>),
                     !.state = AppendFeedback(@, role, r.response)]

\* lines 309-328: the i-th iteration of the loop; an exception of an earlier
\* iteration has left the loop
TeamTurn(i, run, failAt) ==
    IF run.outcome = "raised" THEN run
    ELSE LET role == Roles[i]
             r == process_message(
                      run.agents[role], role,
                      [project_state |-> to_dict(run.state),
                       current_milestone |-> CurrentMilestone(run.state),
                       previous_results |-> run.results],
                      TRUE, Reply(i, failAt))
         IN  RecordResult(AfterMessage(run, role, r), role, r)

\* lines 330-335: every role has answered
Complete(run) ==
    LET done == MarkCompleted(run.state)
        w == save_state(run.files, done)
    IN  [run EXCEPT !.state = done, !.files = w.files,
                    !.outcome = w.outcome, !.error = w.error]

\* lines 337-340: the handler of the try block; an exception of its own
\* save_state replaces the one being handled
Hold(run) ==
    LET held == MarkOnHold(run.state)
        w == save_state(run.files, held)
    IN  [run EXCEPT !.state = held, !.files = w.files, !.results = <<>>,
                    !.error = IF w.outcome = "raised" THEN w.error ELSE @]

\* process_milestone(milestone_description)
ProcessMilestone(description, failAt) ==
    /\ team.alive
    /\ LogsHaveRoom
    /\ IF team.state = NoState
       THEN /\ last' = Call("process_milestone", team.project_id, "raised",
                            "ValueError")
            /\ UNCHANGED <<team, memfiles, files>>
       ELSE /\ Len(team.state.milestones) < MaxMilestones
            /\ \E r0 \in {CreateMilestone(team.state, files, team.agents,
                                          memfiles[team.project_id],
                                          description)} :
               \E r1 \in {TeamTurn(1, r0, failAt)} :
               \E r2 \in {TeamTurn(2, r1, failAt)} :
               \E r3 \in {TeamTurn(3, r2, failAt)} :
               \E r4 \in {TeamTurn(4, r3, failAt)} :
               \E r5 \in {IF r4.outcome = "returned" THEN Complete(r4) ELSE r4} :
               \E r \in {IF r0.outcome = "returned" /\ r5.outcome = "raised"
                         THEN Hold(r5) ELSE r5} :
                   /\ team' = [team EXCEPT !.state = r.state,
                                           !.agents = r.agents]
                   /\ files' = r.files
                   /\ memfiles' = [memfiles EXCEPT ![team.project_id] = r.mem]
                   /\ last' = [Call("process_milestone", team.project_id,
                                    r.outcome, r.error)
                                 EXCEPT !.hadState = TRUE, !.failAt = failAt,
                                        !.invoked = r.invoked,
                                        !.results = r.results]

\* state_manager.save_state(state), called by the client with the state the
\* team holds
SaveState ==
    /\ team.alive
    /\ team.state # NoState
    /\ LET w == save_state(files, team.state) IN
       /\ files' = w.files
       /\ last' = [Call("save_state", team.project_id, w.outcome, w.error)
                     EXCEPT !.hadState = TRUE]
    /\ UNCHANGED <<team, memfiles>>

Next ==
    \/ \E p \in TeamIds : NewTeam(p)
    \/ \E f \in 0..Len(Roles) : ResumeProject(f)
    \/ \E d \in Descriptions, f \in 0..Len(Roles) : ProcessMilestone(d, f)
    \/ SaveState
    \/ \E n \in Names, q \in Requirements : StartNewProject(n, q)
    \/ \E p \in ProjectIds : LoadState(p)

Spec == Init /\ [][Next]_vars

\* ------------------------------------------------------------- properties
\* what a load of project p recovers from the store as it is now
Persisted(p) == load_state(files, p)

Recovers(p) == Persisted(p).outcome = "returned" /\ Persisted(p).value # NoState

LastOf(state) == state.milestones[Len(state.milestones)]

FeedbackRoles(m) == [i \in 1..Len(m.feedback) |-> m.feedback[i].role]

AllOk == [i \in 1..Len(Roles) |-> <<Roles[i], "ok">>]

\* the last call was process_milestone on a team that held a project state:
\* a milestone was created
MilestonePass == last.op = "process_milestone" /\ last.hadState

\* C1: process_milestone on a loaded project with a service that answers "ok"
\* to every role returns {CEO: ok, CTO: ok, Tester: ok, Coder: ok}, and the
\* persisted milestone is COMPLETED, stamped, with one feedback entry per role
\* in the order CEO, CTO, Tester, Coder.
C1_SuccessfulMilestone ==
    (MilestonePass /\ last.failAt = 0) =>
        /\ last.outcome = "returned"
        /\ last.results = AllOk
        /\ Recovers(last.project_id)
        /\ LET m == LastOf(Persisted(last.project_id).value) IN
           /\ m.status.tag = "completed"
           /\ m.completed_at # None
           /\ FeedbackRoles(m) = Roles

\* C2: when the service fails the role at position k, process_milestone
\* raises, the roles after k are not invoked, no results are returned, and the
\* persisted milestone's feedback holds exactly the k-1 roles before it, in
\* role order.
C2_FailureAtRoleK ==
    \A k \in 1..Len(Roles) :
        (MilestonePass /\ last.failAt = k) =>
            /\ last.outcome = "raised"
            /\ last.invoked = SubSeq(Roles, 1, k)
            /\ last.results = <<>>
            /\ Recovers(last.project_id)
            /\ FeedbackRoles(LastOf(Persisted(last.project_id).value))
                  = SubSeq(Roles, 1, k - 1)

\* C3: after a process_milestone that raised once the milestone had been
\* created, the persisted milestone is ON_HOLD and has no completion timestamp.
C3_FailedMilestoneOnHold ==
    (MilestonePass /\ last.outcome = "raised") =>
        /\ Recovers(last.project_id)
        /\ LastOf(Persisted(last.project_id).value).status.tag = "on_hold"
        /\ LastOf(Persisted(last.project_id).value).completed_at = None

\* a milestone is stamped exactly if it is COMPLETED
StampedIffCompleted(m) == (m.completed_at # None) <=> (m.status.tag = "completed")

\* C4: in every reachable state, every milestone of the state the team holds
\* and of every document a load recovers has a completion timestamp if and
\* only if its status is COMPLETED.
C4_CompletedIffTimestamp ==
    /\ team.state # NoState =>
           \A i \in 1..Len(team.state.milestones) :
               StampedIffCompleted(team.state.milestones[i])
    /\ \A p \in ProjectIds :
           Recovers(p) =>
               \A i \in 1..Len(Persisted(p).value.milestones) :
                   StampedIffCompleted(Persisted(p).value.milestones[i])

\* C4's case: after a process_milestone call the team holds a COMPLETED
\* milestone that is stamped and the new one, unstamped
C4_Witness ==
    /\ MilestonePass
    /\ Len(team.state.milestones) = 2
    /\ team.state.milestones[1].status.tag = "completed"
    /\ team.state.milestones[1].completed_at # None
    /\ team.state.milestones[2].status.tag = "in_progress"
    /\ team.state.milestones[2].completed_at = None

\* C5: the milestone at position i of the list the team holds, and of the
\* document a load recovers, has the identifier "milestone_i".
C5_MilestoneIdsMatchPosition ==
    /\ team.state # NoState =>
           \A i \in 1..Len(team.state.milestones) :
               team.state.milestones[i].id = milestone_id(i)
    /\ \A p \in ProjectIds :
           Recovers(p) =>
               \A i \in 1..Len(Persisted(p).value.milestones) :
                   Persisted(p).value.milestones[i].id = milestone_id(i)

\* C5's case: two process_milestone calls on a fresh project, both ended
C5_Witness ==
    /\ MilestonePass
    /\ Len(team.state.milestones) = 2
    /\ team.state.milestones[1].status.tag = "in_progress"
    /\ team.state.milestones[2].id = "milestone_2"
    /\ team.state.milestones[1].id # team.state.milestones[2].id

\* C6: when process_milestone has ended, a load recovers a project state that
\* holds the milestone of the pass with the feedback of every role that had
\* completed.
C6_CheckpointAfterEachStep ==
    MilestonePass =>
        /\ Recovers(last.project_id)
        /\ LastOf(Persisted(last.project_id).value).id = LastOf(team.state).id
        /\ LastOf(Persisted(last.project_id).value).feedback
              = LastOf(team.state).feedback

\* C7: no reader finds a partially written project document, and saving the
\* state the team holds a second time leaves the document of the first save.
C7_SaveIsAtomicReplace ==
    /\ \A p \in ProjectIds : files[p].kind \in {"absent", "complete"}
    /\ (team.alive /\ team.state # NoState) =>
           save_state(save_state(files, team.state).files, team.state).files
             = save_state(files, team.state).files

\* C8: after save_state of the state the team holds, load_state of the same
\* identifier returns a value equal to it.
C8_SaveLoadRoundTrip ==
    (last.op = "save_state") =>
        /\ last.outcome = "returned"
        /\ Persisted(last.project_id).outcome = "returned"
        /\ Persisted(last.project_id).value = team.state

\* C9: a load_state for an identifier with no document returns None without
\* raising and leaves the store as it was: no document is created and
\* list_projects does not gain the identifier.
C9_LoadAbsentReturnsNone ==
    [][\A p \in ProjectIds :
          (last'.op = "load_state" /\ last'.project_id = p
             /\ files[p].kind = "absent") =>
              /\ last'.outcome = "returned"
              /\ last'.value = NoState
              /\ files' = files
              /\ p \notin list_projects(files')]_vars

\* C9's case: load_state was called for an identifier that had no document
C9_Witness ==
    /\ last.op = "load_state"
    /\ ~last.hadState
    /\ last.outcome = "returned"
    /\ last.value = NoState
    /\ last.project_id \notin list_projects(files)

\* C10: after start_new_project a load of the identifier yields status
\* NOT_STARTED, no milestones, no current milestone and one empty feedback
\* list for each of CEO, CTO, Tester, Coder.
C10_StartThenLoad ==
    (last.op = "start_new_project") =>
        /\ Persisted(last.project_id).outcome = "returned"
        /\ Persisted(last.project_id).value # NoState
        /\ Persisted(last.project_id).value.status.tag = "not_started"
        /\ Persisted(last.project_id).value.milestones = <<>>
        /\ Persisted(last.project_id).value.current_milestone_id = None
        /\ Persisted(last.project_id).value.team_feedback
              = [r \in RoleSet |-> <<>>]

\* the step is a resume_project call in which the generation service was
\* reached for the role at position k and failed
ServiceFailedAt(k) ==
    /\ last'.op = "resume_project"
    /\ last'.failAt = k
    /\ Len(last'.invoked) = k

\* C11: when the generation service fails during a role's process_message,
\* exactly one learning entry describing the error is appended to that role's
\* memory and persisted, its decisions are left as they were, the failure
\* raised names the role, and no response is returned.
C11_ServiceFailureRecorded ==
    [][\A k \in 1..Len(Roles) :
          ServiceFailedAt(k) =>
              LET role == Roles[k]
                  old == team.agents[role]
                  new == team'.agents[role]
              IN  /\ Len(new.learnings) = Len(old.learnings) + 1
                  /\ SubSeq(new.learnings, 1, Len(old.learnings)) = old.learnings
                  /\ new.learnings[Len(new.learnings)].learning
                       = "Error encountered: generation service failure"
                  /\ new.decisions = old.decisions
                  /\ memfiles'[team.project_id][role].kind = "complete"
                  /\ memfiles'[team.project_id][role].data = new
                  /\ last'.outcome = "raised"
                  /\ last'.error = "RuntimeError: Error in " \o role \o " agent"
                  /\ last'.results = <<>>]_vars

\* C11's case: resume_project ended with the Tester's request failing
C11_Witness ==
    /\ last.op = "resume_project"
    /\ last.failAt = 3
    /\ last.invoked = <<"CEO", "CTO", "Tester">>
    /\ last.outcome = "raised"
    /\ Len(team.agents["Tester"].learnings) = 1
    /\ team.agents["Tester"].decisions = <<>>
    /\ memfiles[team.project_id]["Tester"].data = team.agents["Tester"]

\* C12: resume_project raises if the team holds no project state; otherwise,
\* the generation service answering every request, it invokes each of the four
\* agents once, each records one decision, and the milestone list and the
\* persisted project document are left as they were.
C12_ResumeInvokesEveryAgent ==
    [][(last'.op = "resume_project") =>
          IF team.state = NoState
          THEN /\ last'.outcome = "raised"
               /\ UNCHANGED <<team, files, memfiles>>
          ELSE (last'.failAt = 0) =>
                  /\ last'.outcome = "returned"
                  /\ last'.invoked = Roles
                  /\ \A r \in RoleSet :
                        Len(team'.agents[r].decisions)
                          = Len(team.agents[r].decisions) + 1
                  /\ team'.state = team.state
                  /\ files' = files]_vars

\* ------------------------------------------------- the memory store alone
\* One agent's AgentMemory, driven through its own methods with histories
\* longer than the summary.
MaxHistory == 6         \* a log is not grown beyond this length

MemRole == "CEO"
MemProject == "p1"
DecisionTexts == {"ok", "revise"}
LearningTexts == {"Error encountered: generation service failure"}
ContextUpdates == {[phase |-> "design"], [phase |-> "build"]}
StepLists == {<<>>, <<"review">>}

\* a context without project state, as process_message(message) builds it
\* when it is given none
BareContext ==
    [project_state |-> NoState, current_milestone |-> NoState,
     previous_results |-> <<>>]

\* SoftwareTeamAgent(role, llm, project_id): no memory file yet
MemInit ==
    /\ files = [p \in ProjectIds |-> AbsentDoc]
    /\ memfiles = [p \in ProjectIds |-> [r \in RoleSet |-> AbsentDoc]]
    /\ team = [NoTeam EXCEPT !.alive = TRUE, !.project_id = MemProject,
                             !.agents = [r \in RoleSet |->
                                            load_memory(memfiles[MemProject][r])]]
    /\ last = NoCall

\* a mutation of the agent's memory and the rewrite of its file
MemWrite(op, w) ==
    /\ team' = [team EXCEPT !.agents[MemRole] = w.memory]
    /\ memfiles' = [memfiles EXCEPT ![MemProject][MemRole] = w.doc]
    /\ last' = Call(op, MemProject, w.outcome, w.error)
    /\ UNCHANGED files

MemAddDecision(text) ==
    /\ Len(team.agents[MemRole].decisions) < MaxHistory
    /\ MemWrite("add_decision",
                add_decision(team.agents[MemRole], text, BareContext))

MemAddLearning(text) ==
    /\ Len(team.agents[MemRole].learnings) < MaxHistory
    /\ MemWrite("add_learning", add_learning(team.agents[MemRole], text))

MemUpdateContext(context) ==
    MemWrite("update_context", update_context(team.agents[MemRole], context))

MemSetNextSteps(steps) ==
    MemWrite("set_next_steps", set_next_steps(team.agents[MemRole], steps))

\* memory.get_memory_summary(): the summary is handed to the caller
MemSummary ==
    /\ last' = [Call("get_memory_summary", MemProject, "returned", None)
                  EXCEPT !.value = get_memory_summary(team.agents[MemRole])]
    /\ UNCHANGED <<files, memfiles, team>>

MemNext ==
    \/ \E t \in DecisionTexts : MemAddDecision(t)
    \/ \E t \in LearningTexts : MemAddLearning(t)
    \/ \E c \in ContextUpdates : MemUpdateContext(c)
    \/ \E s \in StepLists : MemSetNextSteps(s)
    \/ MemSummary

SpecMemory == MemInit /\ [][MemNext]_vars

\* `part` is the last entries of `log`, at most five of them, in log order
LastFiveOf(part, log) ==
    /\ Len(part) <= 5
    /\ Len(part) = IF Len(log) < 5 THEN Len(log) ELSE 5
    /\ \A i \in 1..Len(part) : part[i] = log[Len(log) - Len(part) + i]

\* C13: whatever the stored history length, get_memory_summary returns the
\* last five decisions and the last five learnings at most, in log order, with
\* the whole context map and next-steps list, and the call changes neither the
\* memory the agent holds nor its file.
C13_SummaryBounded ==
    [][(last'.op = "get_memory_summary") =>
          /\ LastFiveOf(last'.value.recent_decisions,
                        team.agents[MemRole].decisions)
          /\ LastFiveOf(last'.value.key_learnings,
                        team.agents[MemRole].learnings)
          /\ last'.value.current_context = team.agents[MemRole].context
          /\ last'.value.pending_steps = team.agents[MemRole].next_steps
          /\ team' = team
          /\ memfiles' = memfiles]_vars

\* C13's case: a summary taken of logs longer than five entries
C13_Witness ==
    /\ last.op = "get_memory_summary"
    /\ Len(team.agents[MemRole].decisions) = 6
    /\ Len(team.agents[MemRole].learnings) = 6
    /\ team.agents[MemRole].decisions[1].decision = "ok"
    /\ team.agents[MemRole].decisions[6].decision = "revise"
    /\ Len(last.value.recent_decisions) = 5
    /\ Len(last.value.key_learnings) = 5
    /\ last.value.pending_steps = <<"review">>

\* C14: the save that follows the creation of the milestone persists it,
\* with the current-milestone reference set to it, before any request of the
\* pass: once the pass exists, whether or not a request was issued, a load
\* finds the milestone list grown by the new milestone and the reference
\* naming it.
C14_CheckpointBeforeRoles ==
    MilestonePass =>
        /\ Recovers(last.project_id)
        /\ Len(Persisted(last.project_id).value.milestones)
             = Len(team.state.milestones)
        /\ Persisted(last.project_id).value.current_milestone_id
             = LastOf(team.state).id

\* the context recorded with the decision role i took last
LastDecisionContext(i) ==
    team.agents[Roles[i]].decisions[Len(team.agents[Roles[i]].decisions)].context

\* C15: in a process_milestone pass that the service answers throughout, the
\* role at position i is given a context whose previous results are the
\* responses of exactly the roles at positions 1..i-1, in role order.
C15_ContextHoldsEarlierRoles ==
    (MilestonePass /\ last.failAt = 0) =>
        \A i \in 1..Len(Roles) :
            /\ Len(team.agents[Roles[i]].decisions) > 0
            /\ LastDecisionContext(i).previous_results
                 = [j \in 1..(i - 1) |-> <<Roles[j], "ok">>]

\* the agents whose process_message ran in the step: each run leaves a
\* decision or a learning in the agent's memory
Processed == {r \in RoleSet : team'.agents[r] # team.agents[r]}

\* C16: in a resume_project call every process_message run issues exactly
\* one request to the generation service, and a run the service answers has
\* appended the decision, with the response and the context used, to the
\* agent's memory and its file when the call returns.
C16_OneRequestDecisionPersisted ==
    [][(last'.op = "resume_project" /\ team.state # NoState) =>
          /\ Len(last'.invoked) = Cardinality(Processed)
          /\ \A i \in 1..Len(last'.invoked) :
                /\ last'.invoked[i] = Roles[i]
                /\ (i # last'.failAt) =>
                      LET old == team.agents[Roles[i]]
                          new == team'.agents[Roles[i]]
                      IN  /\ Len(new.decisions) = Len(old.decisions) + 1
                          /\ new.decisions[Len(new.decisions)].decision = "ok"
                          /\ new.decisions[Len(new.decisions)].context.project_state
                               = to_dict(team.state)
                          /\ memfiles'[team.project_id][Roles[i]].data = new]_vars

\* `old` is an initial part of `new`, entry for entry
IsPrefix(old, new) ==
    /\ Len(old) <= Len(new)
    /\ \A i \in 1..Len(old) : new[i] = old[i]

GrowsByAppend(old, new) ==
    /\ IsPrefix(old.decisions, new.decisions)
    /\ IsPrefix(old.learnings, new.learnings)

\* C17: in every step each role's decisions and learnings logs, in the memory
\* the agent holds and in the memory file, keep every entry they had, unaltered
\* and at its position (so a decision's context snapshot is the same in every
\* later version of the file); a file once written stays a whole document.
C17_LogsGrowByAppend ==
    [][\A r \in RoleSet :
          /\ GrowsByAppend(team.agents[r], team'.agents[r])
          /\ \A p \in ProjectIds :
                (memfiles[p][r].kind # "absent") =>
                    /\ memfiles'[p][r].kind = "complete"
                    /\ GrowsByAppend(memfiles[p][r].data, memfiles'[p][r].data)]_vars

\* C17's case: a role recorded a second decision after its first, both in its
\* file, the first with the context it was written with
C17_Witness ==
    /\ last.op = "resume_project"
    /\ memfiles["p1"]["CTO"].kind = "complete"
    /\ Len(memfiles["p1"]["CTO"].data.decisions) = 2
    /\ memfiles["p1"]["CTO"].data.decisions[1].context.memory_summary.recent_decisions
         = <<>>
    /\ Len(memfiles["p1"]["CTO"].data.decisions[2].context.memory_summary.recent_decisions)
         = 1
    /\ Len(memfiles["p1"]["CEO"].data.learnings) = 1

\* C18: a process_milestone call, however it ends, leaves the status field of
\* the project state the team holds as it was before the call.
C18_ProjectStatusUnchanged ==
    [][(last'.op = "process_milestone") =>
          IF team.state = NoState
          THEN team'.state = NoState
          ELSE /\ team'.state # NoState
               /\ team'.state.status = team.state.status]_vars

\* C18's case: two process_milestone calls after start_new_project, the
\* project still NOT_STARTED
C18_Witness ==
    /\ MilestonePass
    /\ team.state.status = NOT_STARTED
    /\ Len(team.state.milestones) = 2
    /\ team.state.current_milestone_id = "milestone_2"

\* C19: once a process_milestone call that created a milestone has returned
\* or raised, that milestone is persisted as COMPLETED or as ON_HOLD.
C19_PassEndsCompletedOrOnHold ==
    MilestonePass =>
        /\ Recovers(last.project_id)
        /\ LastOf(Persisted(last.project_id).value).id = LastOf(team.state).id
        /\ LastOf(Persisted(last.project_id).value).status.tag
             \in {"completed", "on_hold"}

\* a milestone whose outcome has been persisted
Settled(m) == m.status.tag \in {"completed", "on_hold"}

\* C20: a milestone persisted as COMPLETED or ON_HOLD is still persisted, at
\* the same position and with the same status, feedback and timestamps, after
\* any process_milestone or resume_project call.
C20_SettledMilestoneFinal ==
    [][\A p \in ProjectIds :
          (/\ last'.op \in {"process_milestone", "resume_project"}
           /\ Recovers(p)) =>
              \A i \in 1..Len(Persisted(p).value.milestones) :
                  Settled(Persisted(p).value.milestones[i]) =>
                      /\ load_state(files', p).outcome = "returned"
                      /\ load_state(files', p).value # NoState
                      /\ Len(load_state(files', p).value.milestones) >= i
                      /\ load_state(files', p).value.milestones[i]
                           = Persisted(p).value.milestones[i]]_vars

====
